---------------------------- MODULE Spec2Model ----------------------------
(***************************************************************************)
(* The POST /scrape handler of the web scraping API (server of             *)
(* src/unnamed/part_001, and its copy in src/test-api.js): URL validation, *)
(* the browser lifecycle around the awaits of the pipeline, the DOM        *)
(* extraction callback and the responses. The handler modelled is the one  *)
(* of part_001; the copy differs by a fixed page.waitForTimeout before the *)
(* content wait and by the forEach form of the row extraction              *)
(* (extractRowsForEach, pageFunctionForEach), which the extraction         *)
(* specification runs as well (impl).                                      *)
(*                                                                         *)
(* Text (JavaScript strings) is a sequence of one-character strings, so    *)
(* that trimming and URL parsing are computed character by character.      *)
(***************************************************************************)
EXTENDS Integers, Sequences, FiniteSets, TLC

VARIABLES req, browsers, users, impl

vars == <<req, browsers, users, impl>>

-----------------------------------------------------------------------------
(* Bounds of the model *)

\* concurrent requests (and so browser handles) in one behaviour
NumReq == 2
\* rows matched by 'tr.odd, tr.even' on a page of the extraction specification
MaxRows == 3
\* td cells of one row
MaxCells == 5
\* leading blanks put before a URL of the validation specification
MaxPad == 1

\* cells.length >= 4
MinCells == 4

Reqs == 1..NumReq
Handles == 1..NumReq

-----------------------------------------------------------------------------
(* Text *)

WhiteSpace == {" ", "\n", "\t"}

RECURSIVE TrimStart(_)
TrimStart(s) ==
  IF Len(s) > 0 /\ Head(s) \in WhiteSpace THEN TrimStart(Tail(s)) ELSE s

RECURSIVE TrimEnd(_)
TrimEnd(s) ==
  IF Len(s) > 0 /\ s[Len(s)] \in WhiteSpace
  THEN TrimEnd(SubSeq(s, 1, Len(s) - 1))
  ELSE s

\* String.prototype.trim
Trim(s) == TrimEnd(TrimStart(s))

-----------------------------------------------------------------------------
(* new URL(url): the WHATWG URL parser without a base URL, on the alphabet *)
(* of letters, digits, blank and the delimiters : / \ ? # + - . ( ) < >    *)

UpperCase == <<"A","B","C","D","E","F","G","H","I","J","K","L","M",
               "N","O","P","Q","R","S","T","U","V","W","X","Y","Z">>
LowerCase == <<"a","b","c","d","e","f","g","h","i","j","k","l","m",
               "n","o","p","q","r","s","t","u","v","w","x","y","z">>
Digits == {"0","1","2","3","4","5","6","7","8","9"}

IsUpper(c) == \E i \in DOMAIN UpperCase : UpperCase[i] = c
IsLower(c) == \E i \in DOMAIN LowerCase : LowerCase[i] = c
IsAlpha(c) == IsUpper(c) \/ IsLower(c)
ToLower(c) ==
  IF IsUpper(c) THEN LowerCase[CHOOSE i \in DOMAIN UpperCase : UpperCase[i] = c]
  ELSE c

IsSchemeChar(c) == IsAlpha(c) \/ c \in Digits \/ c \in {"+", "-", "."}

\* leading and trailing C0 control or space are removed before parsing
StripURL(s) == Trim(s)

\* position of the ":" ending the scheme, 0 when the input has no scheme
SchemeEnd(s) ==
  IF \E i \in 2..Len(s) :
        /\ s[i] = ":"
        /\ IsAlpha(s[1])
        /\ \A j \in 1..(i - 1) : IsSchemeChar(s[j])
  THEN CHOOSE i \in 2..Len(s) :
        /\ s[i] = ":"
        /\ \A j \in 1..(i - 1) : s[j] # ":"
  ELSE 0

SchemeOf(s) ==
  LET t == StripURL(s) IN [i \in 1..(SchemeEnd(t) - 1) |-> ToLower(t[i])]

S_http == <<"h","t","t","p">>
S_https == <<"h","t","t","p","s">>
S_ftp == <<"f","t","p">>
S_ws == <<"w","s">>
S_wss == <<"w","s","s">>
S_file == <<"f","i","l","e">>

SpecialSchemes == {S_http, S_https, S_ftp, S_ws, S_wss, S_file}

IsSlash(c) == c \in {"/", "\\"}

RECURSIVE SkipSlashes(_)
SkipSlashes(s) == IF Len(s) > 0 /\ IsSlash(Head(s)) THEN SkipSlashes(Tail(s)) ELSE s

\* the host: up to the first delimiter of the authority
RECURSIVE HostPart(_, _)
HostPart(s, delims) ==
  IF Len(s) = 0 \/ Head(s) \in delims THEN <<>>
  ELSE <<Head(s)>> \o HostPart(Tail(s), delims)

ForbiddenHostChars == {" ", "<", ">"}

HostCharsOK(h) == \A i \in DOMAIN h : h[i] \notin ForbiddenHostChars

\* TRUE iff new URL(s) returns, FALSE iff it throws TypeError (Invalid URL)
URLParses(s) ==
  LET t == StripURL(s)
      e == SchemeEnd(t)
      scheme == [i \in 1..(e - 1) |-> ToLower(t[i])]
      rest == SubSeq(t, e + 1, Len(t))
      authority == Len(rest) >= 2 /\ rest[1] = "/" /\ rest[2] = "/"
  IN  /\ e > 0
      /\ IF scheme \in SpecialSchemes \ {S_file}
         THEN LET h == HostPart(SkipSlashes(rest), {"/", "\\", "?", "#"})
              IN  Len(h) > 0 /\ HostCharsOK(h)
         ELSE IF scheme = S_file
         THEN (authority \/ (Len(rest) >= 2 /\ IsSlash(rest[1]) /\ IsSlash(rest[2])))
                 => HostCharsOK(HostPart(SubSeq(rest, 3, Len(rest)),
                                         {"/", "\\", "?", "#"}))
         ELSE authority
                 => HostCharsOK(HostPart(SubSeq(rest, 3, Len(rest)),
                                         {"/", "?", "#"}))

-----------------------------------------------------------------------------
(* The page and the extraction callback of page.evaluate                    *)
(*                                                                          *)
(* A page (DOM) is a record:                                                *)
(*   zone  the textContent of the elements matching 'a.zone-name', in       *)
(*         document order (querySelector returns the first, null if none)   *)
(*   boss  the same for '#filter-boss-text'                                 *)
(*   rows  the elements matching 'tr.odd, tr.even' in document order, each  *)
(*         the sequence of the textContent of its td cells                  *)
(*   fault the extraction rule whose DOM access throws on this page         *)
(*   faultRow  when fault = "rows": the row whose access throws, 0 when     *)
(*         querySelectorAll('tr.odd, tr.even') itself throws                *)

RuleFaults == {"none", "zone", "boss", "rows"}

\* mapRow reading the third cell for count (td:nth-child(3))
mapRow_ThirdCell(cells) ==
  IF Len(cells) >= MinCells
  THEN [jobName |-> IF 1 \in DOMAIN cells THEN Trim(cells[1]) ELSE <<>>,
        score   |-> IF 2 \in DOMAIN cells THEN Trim(cells[2]) ELSE <<>>,
        count   |-> IF 3 \in DOMAIN cells THEN Trim(cells[3]) ELSE <<>>]
  ELSE [isNull |-> TRUE]

\* the null that the map callback returns for a short row
NullRow == [isNull |-> TRUE]

\* the callback of Array.from(rows).map:
\* cells.length >= 4 ? { jobName, score, count } : null
mapRow(cells) ==
  IF Len(cells) >= MinCells
  THEN [jobName |-> IF 1 \in DOMAIN cells THEN Trim(cells[1]) ELSE <<>>,
        score   |-> IF 2 \in DOMAIN cells THEN Trim(cells[2]) ELSE <<>>,
        count   |-> IF 4 \in DOMAIN cells THEN Trim(cells[4]) ELSE <<>>]
  ELSE NullRow

IsKeptRow(x) == x # NullRow

\* Array.from(rows).map(...).filter(row => row !== null)
extractRows(rows) ==
  SelectSeq([i \in 1..Len(rows) |-> mapRow(rows[i])], IsKeptRow)

\* test-api.js: tableRows.forEach(row => { if (cells.length >= 4) push })
RECURSIVE extractRowsForEach(_, _)
extractRowsForEach(rows, acc) ==
  IF rows = <<>> THEN acc
  ELSE LET cells == Head(rows)
       IN  extractRowsForEach(Tail(rows),
             IF Len(cells) >= MinCells
             THEN Append(acc, [jobName |-> Trim(cells[1]),
                               score   |-> Trim(cells[2]),
                               count   |-> Trim(cells[4])])
             ELSE acc)

\* querySelector + if (element) textContent.trim(), inside its try/catch
extractSingle(els, faults) ==
  IF faults \/ Len(els) = 0 THEN <<>> ELSE Trim(els[1])

\* pageFunction filling a rows array that outlives the call: the rows of a
\* request answered earlier are still in it
pageFunction_Accumulating(dom, ts) ==
  [threw |-> FALSE,
   value |->
     [zoneName  |-> extractSingle(dom.zone, dom.fault = "zone"),
      bossName  |-> extractSingle(dom.boss, dom.fault = "boss"),
      tableRows |-> IF \E h \in Handles : browsers[h].state = "closed"
                    THEN extractRows(dom.rows) \o extractRows(dom.rows)
                    ELSE extractRows(dom.rows),
      timestamp |-> ts]]

\* pageFunction reading textContent of the zone and boss elements without
\* the null test and outside a try: a missing element makes it throw
pageFunction_Unguarded(dom, ts) ==
  [threw |-> dom.zone = <<>> \/ dom.boss = <<>>,
   value |->
     [zoneName  |-> extractSingle(dom.zone, dom.fault = "zone"),
      bossName  |-> extractSingle(dom.boss, dom.fault = "boss"),
      tableRows |-> IF dom.fault = "rows" THEN <<>> ELSE extractRows(dom.rows),
      timestamp |-> ts]]

\* The function passed to page.evaluate, run on page dom at time ts: threw
\* tells whether it ends by a throw, value is the record it returns. Every
\* DOM access of the function is inside the try/catch of its rule, so that no
\* throw leaves it.
pageFunction(dom, ts) ==
  [threw |-> FALSE,
   value |->
     [zoneName  |-> extractSingle(dom.zone, dom.fault = "zone"),
      bossName  |-> extractSingle(dom.boss, dom.fault = "boss"),
      tableRows |-> IF dom.fault = "rows" THEN <<>> ELSE extractRows(dom.rows),
      timestamp |-> ts]]

\* The callback of test-api.js: the same rules, the rows pushed one by one
\* onto data.tableRows, so that the rows pushed before a throw stay in it.
pageFunctionForEach(dom, ts) ==
  [threw |-> FALSE,
   value |->
     [zoneName  |-> extractSingle(dom.zone, dom.fault = "zone"),
      bossName  |-> extractSingle(dom.boss, dom.fault = "boss"),
      tableRows |-> IF dom.fault = "rows"
                    THEN extractRowsForEach(
                           SubSeq(dom.rows, 1, dom.faultRow - 1), <<>>)
                    ELSE extractRowsForEach(dom.rows, <<>>),
      timestamp |-> ts]]

-----------------------------------------------------------------------------
(* Requests, browsers and responses                                         *)
(*                                                                          *)
(* req[r] is the activation of the async handler for request r:             *)
(*   pc          "idle" (not yet arrived), "received" (body parsed, handler *)
(*               not yet run), the call whose promise the handler awaits    *)
(*               ("launch", "newContext", "newPage", "goto",                *)
(*               "waitForSelector", "evaluate", "close", "catchClose"),     *)
(*               "done" (handler returned) or "rejected" (handler threw)    *)
(*   body        req.body                                                   *)
(*   browser     the handle chromium.launch returned, 0 while undefined     *)
(*   page        <<dom>> once the navigation has loaded a page              *)
(*   waited      how waitForSelector ended                                  *)
(*   data        <<scrapedData>> once page.evaluate has returned            *)
(*   err         the call that threw into the catch block                   *)
(*   launchCalls, closeCalls   invocations of chromium.launch and of        *)
(*               browser.close by this activation                           *)
(*   resp        the responses sent on res, in order                        *)
(*   log         the calls of the browser engine made by this activation    *)
(*               and how each settled, in order: <<"call", c>>,             *)
(*               <<"ok", c>>, <<"throw", c>>                                *)
(* browsers[h] is the browser process behind handle h and the request whose *)
(* launch created it; users[h] is the set of requests that called a method  *)
(* of h or of a context or page of h. impl is the copy of the handler that  *)
(* serves: "server" (part_001) or "test-api" (the one in test-api.js); the  *)
(* two differ in the extraction callback.                                   *)

Implementations == {"server", "test-api"}

Body(u) == [url |-> u]
\* a JSON body without a url member
BodyNoUrl == [name |-> <<"x">>]

IdleReq ==
  [pc |-> "idle", body |-> BodyNoUrl, browser |-> 0, page |-> <<>>,
   waited |-> "none", data |-> <<>>, err |-> "none",
   launchCalls |-> 0, closeCalls |-> 0, resp |-> <<>>, log |-> <<>>]

NoBrowser == [state |-> "none", owner |-> 0]

\* !url
UrlMissing(body) == "url" \notin DOMAIN body \/ body.url = <<>>

RequiredResponse ==
  [status |-> 400,
   body |-> [error |-> "URL is required in request body",
             example |-> [url |-> "https://example.com"]]]

InvalidResponse(u) ==
  [status |-> 400, body |-> [error |-> "Invalid URL format", provided |-> u]]

SuccessResponse(d) ==
  [status |-> 200, body |-> [success |-> TRUE, data |-> d]]

FailureResponse(msg) ==
  [status |-> 500,
   body |-> [success |-> FALSE, error |-> "Failed to scrape the website",
             message |-> msg]]

\* browser declared once for the module instead of per call of the handler:
\* every activation reads the handle of the latest launch
BrowserOf_Shared(r) ==
  IF \E h \in Handles : browsers[h].state # "none"
  THEN CHOOSE h \in Handles :
         /\ browsers[h].state # "none"
         /\ \A g \in Handles : browsers[g].state # "none" => g <= h
  ELSE 0

\* the value of the handler's local variable browser
BrowserOf(r) == req[r].browser

\* the smallest handle not yet given out
FreshHandle == CHOOSE h \in Handles :
  /\ browsers[h].state = "none"
  /\ \A g \in Handles : browsers[g].state = "none" => h <= g

Touch(h, r) == [users EXCEPT ![h] = @ \cup {r}]

Call(c) == <<"call", c>>
Ok(c) == <<"ok", c>>
Threw(c) == <<"throw", c>>

\* what the log gains when the try block is left by a throw: of the awaited
\* call; of res.json ("respond"), after browser.close had returned; of the
\* evaluation, when the extraction callback threw ("callback")
ThrowEvents(stage) ==
  IF stage = "respond" THEN <<Ok("close"), Threw("respond")>>
  ELSE IF stage = "callback" THEN <<Threw("evaluate")>>
  ELSE <<Threw(stage)>>

\* a catch block that answers without closing the browser
Catch_NoClose(r, stage) ==
  /\ req' = [req EXCEPT ![r].pc = "done", ![r].err = stage,
                        ![r].page = <<>>, ![r].data = <<>>,
                        ![r].resp = Append(@, FailureResponse(stage))]
  /\ users' = users

\* a catch block without the if (browser) test: with browser undefined,
\* browser.close() throws inside the catch block and nothing is sent
Catch_Unguarded(r, stage) ==
  IF BrowserOf(r) # 0
  THEN /\ req' = [req EXCEPT ![r].pc = "catchClose", ![r].err = stage,
                             ![r].page = <<>>, ![r].data = <<>>,
                             ![r].closeCalls = @ + 1,
                             ![r].log = @ \o ThrowEvents(stage)
                                          \o <<Call("close")>>]
       /\ users' = Touch(BrowserOf(r), r)
  ELSE /\ req' = [req EXCEPT ![r].pc = "rejected", ![r].err = stage,
                             ![r].page = <<>>, ![r].data = <<>>,
                             ![r].log = @ \o ThrowEvents(stage)]
       /\ users' = users

\* The catch block, entered when the awaited call named stage throws:
\* if (browser) await browser.close(); res.status(500).json(...)
Catch(r, stage) ==
  IF BrowserOf(r) # 0
  THEN /\ req' = [req EXCEPT ![r].pc = "catchClose", ![r].err = stage,
                             ![r].page = <<>>, ![r].data = <<>>,
                             ![r].closeCalls = @ + 1,
                             ![r].log = @ \o ThrowEvents(stage)
                                          \o <<Call("close")>>]
       /\ users' = Touch(BrowserOf(r), r)
  ELSE /\ req' = [req EXCEPT ![r].pc = "done", ![r].err = stage,
                             ![r].page = <<>>, ![r].data = <<>>,
                             ![r].log = @ \o ThrowEvents(stage),
                             ![r].resp = Append(@, FailureResponse(stage))]
       /\ users' = users

-----------------------------------------------------------------------------
(* Inputs of the handler specification *)

U_https == <<"h","t","t","p","s",":","/","/","a">>
U_ftp == <<"f","t","p",":","/","/","a">>
U_notAUrl == <<"n","o","t","-","a","-","u","r","l">>

RequestBodies == {BodyNoUrl, Body(U_notAUrl), Body(U_https)}

EmptyDom ==
  [zone |-> <<>>, boss |-> <<>>, rows |-> <<>>, fault |-> "none", faultRow |-> 0]

SampleDom ==
  [zone |-> << <<" ","Z","1","\n">> >>,
   boss |-> << <<"B","1"," ">> >>,
   rows |-> << << <<" ","j","1">>, <<"9","0">>, <<"x">>, <<"7"," ">> >>,
               << <<"j","2">>, <<"8","0">>, <<"y">> >> >>,
   fault |-> "none", faultRow |-> 0]

PageDoms == {EmptyDom, SampleDom}

\* readings of the page's clock
Times == {"T1", "T2"}

-----------------------------------------------------------------------------
(* The handler, one action per run between two awaits *)

\* express.json() has parsed the body of the next request
Receive(r, b) ==
  /\ req[r].pc = "idle"
  /\ \A q \in Reqs : q < r => req[q].pc # "idle"
  /\ req' = [req EXCEPT ![r].pc = "received", ![r].body = b]
  /\ UNCHANGED <<browsers, users, impl>>

\* the handler without the try { new URL(url) } validation
Handle_NoParse(r) ==
  /\ req[r].pc = "received"
  /\ req' =
       IF UrlMissing(req[r].body)
       THEN [req EXCEPT ![r].pc = "done",
                        ![r].resp = Append(@, RequiredResponse)]
       ELSE [req EXCEPT ![r].pc = "launch", ![r].launchCalls = @ + 1,
                        ![r].log = Append(@, Call("launch"))]
  /\ UNCHANGED <<browsers, users, impl>>

\* The handler from its entry to its first await: the two validations, then
\* the call of chromium.launch.
Handle(r) ==
  /\ req[r].pc = "received"
  /\ req' =
       IF UrlMissing(req[r].body)
       THEN [req EXCEPT ![r].pc = "done",
                        ![r].resp = Append(@, RequiredResponse)]
       ELSE IF ~URLParses(req[r].body.url)
       THEN [req EXCEPT ![r].pc = "done",
                        ![r].resp = Append(@, InvalidResponse(req[r].body.url))]
       ELSE [req EXCEPT ![r].pc = "launch", ![r].launchCalls = @ + 1,
                        ![r].log = Append(@, Call("launch"))]
  /\ UNCHANGED <<browsers, users, impl>>

\* chromium.launch settles: browser = <handle>, then browser.newContext is
\* called; or it throws into the catch block with browser undefined.
LaunchReturns(r) ==
  /\ req[r].pc = "launch"
  /\ \/ /\ req' = [req EXCEPT ![r].pc = "newContext", ![r].browser = FreshHandle,
                              ![r].log = @ \o <<Ok("launch"), Call("newContext")>>]
        /\ browsers' = [browsers EXCEPT
                          ![FreshHandle] = [state |-> "open", owner |-> r]]
        /\ users' = Touch(FreshHandle, r)
     \/ /\ Catch(r, "launch")
        /\ UNCHANGED browsers
  /\ UNCHANGED impl

\* browser.newContext settles, then context.newPage is called
NewContextReturns(r) ==
  /\ req[r].pc = "newContext"
  /\ \/ /\ req' = [req EXCEPT ![r].pc = "newPage",
                              ![r].log = @ \o <<Ok("newContext"), Call("newPage")>>]
        /\ users' = Touch(req[r].browser, r)
     \/ Catch(r, "newContext")
  /\ UNCHANGED <<browsers, impl>>

\* context.newPage settles, then page.setDefaultTimeout and page.goto
NewPageReturns(r) ==
  /\ req[r].pc = "newPage"
  /\ \/ /\ req' = [req EXCEPT ![r].pc = "goto",
                              ![r].log = @ \o <<Ok("newPage"), Call("goto")>>]
        /\ users' = Touch(req[r].browser, r)
     \/ Catch(r, "newPage")
  /\ UNCHANGED <<browsers, impl>>

\* page.waitForSelector called without await: page.evaluate is called in
\* the same run, before the wait has settled
GotoReturns_NoAwait(r) ==
  /\ req[r].pc = "goto"
  /\ \/ \E d \in PageDoms :
          /\ req' = [req EXCEPT ![r].pc = "evaluate", ![r].page = <<d>>,
                                ![r].log = @ \o <<Ok("goto"),
                                                  Call("waitForSelector"),
                                                  Call("evaluate")>>]
          /\ users' = Touch(req[r].browser, r)
     \/ Catch(r, "goto")
  /\ UNCHANGED <<browsers, impl>>

\* page.goto settles with the page loaded, then page.waitForSelector is
\* called; or the navigation fails or times out
GotoReturns(r) ==
  /\ req[r].pc = "goto"
  /\ \/ \E d \in PageDoms :
          /\ req' = [req EXCEPT ![r].pc = "waitForSelector", ![r].page = <<d>>,
                                ![r].log = @ \o <<Ok("goto"),
                                                  Call("waitForSelector")>>]
          /\ users' = Touch(req[r].browser, r)
     \/ Catch(r, "goto")
  /\ UNCHANGED <<browsers, impl>>

\* waitForSelector without its own try/catch: its timeout reaches the outer
\* catch block
WaitReturns_Hard(r) ==
  /\ req[r].pc = "waitForSelector"
  /\ \/ /\ req[r].page[1].rows # <<>>
        /\ req' = [req EXCEPT ![r].pc = "evaluate", ![r].waited = "found"]
        /\ users' = Touch(req[r].browser, r)
     \/ /\ req' = [req EXCEPT ![r].pc = "catchClose", ![r].waited = "timeout",
                              ![r].err = "waitForSelector", ![r].page = <<>>,
                              ![r].closeCalls = @ + 1]
        /\ users' = Touch(req[r].browser, r)
  /\ UNCHANGED <<browsers, impl>>

\* page.waitForSelector settles: a row became visible, or it threw (the
\* timeout, for one) and the inner catch logs and goes on; then page.evaluate
WaitReturns(r) ==
  /\ req[r].pc = "waitForSelector"
  /\ \E w \in {"found", "timeout"} :
       /\ w = "found" => req[r].page[1].rows # <<>>
       /\ req' = [req EXCEPT
                    ![r].pc = "evaluate", ![r].waited = w,
                    ![r].log = @ \o <<IF w = "found" THEN Ok("waitForSelector")
                                      ELSE Threw("waitForSelector"),
                                      Call("evaluate")>>]
  /\ users' = Touch(req[r].browser, r)
  /\ UNCHANGED <<browsers, impl>>

\* the handler answering as soon as the record is there, and closing the
\* browser afterwards
EvaluateReturns_RespondFirst(r) ==
  /\ req[r].pc = "evaluate"
  /\ \/ \E ts \in Times :
          /\ req' = [req EXCEPT
                       ![r].pc = "close",
                       ![r].data = <<pageFunction(req[r].page[1], ts).value>>,
                       ![r].closeCalls = @ + 1,
                       ![r].log = @ \o <<Ok("evaluate"), Call("close")>>,
                       ![r].resp = Append(@,
                          SuccessResponse(pageFunction(req[r].page[1], ts).value))]
          /\ users' = Touch(BrowserOf(r), r)
     \/ Catch(r, "evaluate")
  /\ UNCHANGED <<browsers, impl>>

\* page.evaluate settles with the record the callback returned, then
\* browser.close is called; or the evaluation itself fails
EvaluateReturns(r) ==
  /\ req[r].pc = "evaluate"
  /\ \/ \E ts \in Times :
          LET result == IF impl = "server"
                        THEN pageFunction(req[r].page[1], ts)
                        ELSE pageFunctionForEach(req[r].page[1], ts)
          IN  IF result.threw
              THEN Catch(r, "callback")
              ELSE /\ req' = [req EXCEPT ![r].pc = "close",
                                         ![r].data = <<result.value>>,
                                         ![r].closeCalls = @ + 1,
                                         ![r].log = @ \o <<Ok("evaluate"),
                                                           Call("close")>>]
                   /\ users' = Touch(BrowserOf(r), r)
     \/ Catch(r, "evaluate")
  /\ UNCHANGED <<browsers, impl>>

\* browser.close of the try block settles, then res.json({success: true});
\* a throw of either enters the catch block
CloseReturns(r) ==
  /\ req[r].pc = "close"
  /\ \/ /\ browsers' = [browsers EXCEPT ![BrowserOf(r)].state = "closed"]
        /\ \/ /\ req' = [req EXCEPT
                           ![r].pc = "done",
                           ![r].log = Append(@, Ok("close")),
                           ![r].resp = Append(@, SuccessResponse(req[r].data[1]))]
              /\ users' = users
           \/ Catch(r, "respond")
     \/ /\ \E s \in {"open", "closed"} :
             browsers' = [browsers EXCEPT ![BrowserOf(r)].state = s]
        /\ Catch(r, "close")
  /\ UNCHANGED impl

\* browser.close of the catch block settles, then res.status(500).json; if it
\* throws, the handler's promise rejects and nothing is sent
CatchCloseReturns(r) ==
  /\ req[r].pc = "catchClose"
  /\ \/ /\ browsers' = [browsers EXCEPT ![BrowserOf(r)].state = "closed"]
        /\ req' = [req EXCEPT ![r].pc = "done",
                              ![r].log = Append(@, Ok("close")),
                              ![r].resp = Append(@, FailureResponse(req[r].err))]
     \/ /\ \E s \in {"open", "closed"} :
             browsers' = [browsers EXCEPT ![BrowserOf(r)].state = s]
        /\ req' = [req EXCEPT ![r].pc = "rejected",
                              ![r].log = Append(@, Threw("close"))]
  /\ UNCHANGED <<users, impl>>

Init ==
  /\ req = [r \in Reqs |-> IdleReq]
  /\ browsers = [h \in Handles |-> NoBrowser]
  /\ users = [h \in Handles |-> {}]
  /\ impl = "server"

Next ==
  \E r \in Reqs :
    \/ \E b \in RequestBodies : Receive(r, b)
    \/ Handle(r)
    \/ LaunchReturns(r)
    \/ NewContextReturns(r)
    \/ NewPageReturns(r)
    \/ GotoReturns(r)
    \/ WaitReturns(r)
    \/ EvaluateReturns(r)
    \/ CloseReturns(r)
    \/ CatchCloseReturns(r)

Spec == Init /\ [][Next]_vars

\* The awaited calls that settle in bounded time. chromium.launch has the
\* engine's launch timeout, page.goto the page's default timeout (30000) and
\* page.waitForSelector its own (15000); newContext, newPage and the two
\* browser.close are taken to settle as well. page.evaluate has no timeout:
\* the page's default timeout does not apply to it, and nothing else bounds it.
BoundedCalls ==
  \A r \in Reqs :
    /\ WF_vars(Handle(r))
    /\ WF_vars(LaunchReturns(r))
    /\ WF_vars(NewContextReturns(r))
    /\ WF_vars(NewPageReturns(r))
    /\ WF_vars(GotoReturns(r))
    /\ WF_vars(WaitReturns(r))
    /\ WF_vars(CloseReturns(r))
    /\ WF_vars(CatchCloseReturns(r))

SpecBounded == Init /\ [][Next]_vars /\ BoundedCalls

-----------------------------------------------------------------------------
(* The validation specification: one request, its body drawn from a family *)
(* of strings around the URL grammar, run through the whole handler         *)

RECURSIVE Blanks(_)
Blanks(n) == IF n = 0 THEN <<>> ELSE <<" ">> \o Blanks(n - 1)

SchemeTexts ==
  { S_http, S_https, S_ftp, S_file, S_ws,
    <<"H","t","T","p">>,
    <<"j","a","v","a","s","c","r","i","p","t">>,
    <<"x","+","1">>,
    <<"1","h","t","t","p">>,
    <<"h","t"," ","t","p">>,
    <<>> }

SchemeSeparators == { <<":">>, <<>> }

UrlTails ==
  { <<"/","/","a">>,
    <<"/","/","a",".","b","/","p","?","q","#","f">>,
    <<"/","/">>,
    <<>>,
    <<"a">>,
    <<"/","e","t","c">>,
    <<"/","/","/","e">>,
    <<"\\","\\","a">>,
    <<"/","/","a"," ","b">>,
    <<"/","/","<">>,
    <<"a","l","e","r","t","(","1",")">> }

UrlTexts ==
  { Blanks(k) \o s \o c \o t :
      k \in 0..MaxPad, s \in SchemeTexts, c \in SchemeSeparators, t \in UrlTails }

ValidationBodies == {BodyNoUrl} \cup { Body(u) : u \in UrlTexts }

InitValidate ==
  /\ \E b \in ValidationBodies :
       req = [r \in Reqs |->
                IF r = 1 THEN [IdleReq EXCEPT !.pc = "received", !.body = b]
                ELSE IdleReq]
  /\ browsers = [h \in Handles |-> NoBrowser]
  /\ users = [h \in Handles |-> {}]
  /\ impl = "server"

NextValidate ==
  \E r \in Reqs :
    \/ Handle(r)
    \/ LaunchReturns(r)
    \/ NewContextReturns(r)
    \/ NewPageReturns(r)
    \/ GotoReturns(r)
    \/ WaitReturns(r)
    \/ EvaluateReturns(r)
    \/ CloseReturns(r)
    \/ CatchCloseReturns(r)

SpecValidate == InitValidate /\ [][NextValidate]_vars

-----------------------------------------------------------------------------
(* The extraction specification: one request whose navigation has loaded a *)
(* page drawn from a family of DOMs, from the evaluation to the response   *)

CellDigits == <<"1","2","3","4","5","6","7","8","9">>

\* the text of cell i of a row: padded with white space, or bare
CellText(v, i) ==
  IF v = "padded" THEN <<" ", "p", CellDigits[i], "\n">>
  ELSE <<"b", CellDigits[i]>>

RowOf(n, v) == [i \in 1..n |-> CellText(v, i)]

RowPool == { RowOf(n, v) : n \in 0..MaxCells, v \in {"padded", "bare"} }

RowLists == UNION { [1..k -> RowPool] : k \in 0..MaxRows }

ElementTexts ==
  { <<>>,
    << <<" ","Z","\t">> >>,
    << <<" "," ">> >>,
    << <<"A"," ","B">>, <<"C">> >> }

ExtractionDoms ==
  { [zone |-> << <<" ","Z","\t">> >>, boss |-> <<>>, rows |-> rs,
     fault |-> "none", faultRow |-> 0] :
      rs \in RowLists }
  \cup
  { [zone |-> z, boss |-> b, rows |-> rs, fault |-> f, faultRow |-> 0] :
      z \in ElementTexts, b \in ElementTexts,
      rs \in { <<>>, <<RowOf(MinCells, "padded")>> }, f \in RuleFaults }
  \cup
  UNION { { [zone |-> << <<" ","Z","\t">> >>, boss |-> <<>>, rows |-> rs,
             fault |-> "rows", faultRow |-> k] : k \in 1..Len(rs) } :
          rs \in { l \in RowLists : Len(l) <= 2 } }

\* the log of an activation that awaits page.evaluate
LogBeforeEvaluate(w) ==
  <<Call("launch"), Ok("launch"), Call("newContext"), Ok("newContext"),
    Call("newPage"), Ok("newPage"), Call("goto"), Ok("goto"),
    Call("waitForSelector"),
    IF w = "found" THEN Ok("waitForSelector") ELSE Threw("waitForSelector"),
    Call("evaluate")>>

InitExtract ==
  /\ \E d \in ExtractionDoms, w \in {"found", "timeout"} :
       /\ w = "found" => d.rows # <<>>
       /\ req = [r \in Reqs |->
                   IF r = 1
                   THEN [IdleReq EXCEPT !.pc = "evaluate", !.body = Body(U_https),
                                        !.browser = 1, !.page = <<d>>,
                                        !.waited = w, !.launchCalls = 1,
                                        !.log = LogBeforeEvaluate(w)]
                   ELSE IdleReq]
  /\ browsers = [h \in Handles |->
                   IF h = 1 THEN [state |-> "open", owner |-> 1] ELSE NoBrowser]
  /\ users = [h \in Handles |-> IF h = 1 THEN {1} ELSE {}]
  /\ impl \in Implementations

NextExtract ==
  \E r \in Reqs :
    \/ EvaluateReturns(r)
    \/ CloseReturns(r)
    \/ CatchCloseReturns(r)

SpecExtract == InitExtract /\ [][NextExtract]_vars

-----------------------------------------------------------------------------
(* Properties *)

\* the handler of request r has returned or thrown
Finished(r) == req[r].pc \in {"done", "rejected"}

Statuses(r) == { req[r].resp[i].status : i \in DOMAIN req[r].resp }

\* C1: for every request whose launch returned a browser, browser.close has
\* been invoked exactly once when the handler has finished, whatever the
\* exit path.
C1_CloseOncePerLaunch ==
  \A r \in Reqs :
    (Finished(r) /\ req[r].browser # 0) => req[r].closeCalls = 1

\* C2: a request whose url is missing or does not parse as a URL never calls
\* chromium.launch and holds no browser, and once its handler has finished
\* it has been answered 400.
C2_InvalidInputNeverLaunches ==
  \A r \in Reqs :
    (req[r].pc # "idle"
       /\ (UrlMissing(req[r].body) \/ ~URLParses(req[r].body.url)))
    => /\ req[r].launchCalls = 0
       /\ req[r].browser = 0
       /\ req[r].pc \in {"received", "done"}
       /\ req[r].pc = "done" =>
            (Len(req[r].resp) = 1 /\ req[r].resp[1].status = 400)

\* a url with a scheme and an empty host was answered 400 Invalid URL format
C2_Witness ==
  \E r \in Reqs :
    /\ req[r].pc = "done"
    /\ ~UrlMissing(req[r].body)
    /\ SchemeOf(req[r].body.url) = S_http
    /\ ~URLParses(req[r].body.url)
    /\ req[r].resp = <<InvalidResponse(req[r].body.url)>>

\* C3: only a url whose scheme is http or https passes the validation:
\* chromium.launch is called for no other url.
C3_OnlyHttpSchemesLaunch ==
  \A r \in Reqs :
    req[r].launchCalls > 0 => SchemeOf(req[r].body.url) \in {S_http, S_https}

\* C4: a request that has been sent a 500 response holds no open browser:
\* if its launch returned a browser, that browser is closed.
C4_ClosedBeforeFailureResponse ==
  \A r \in Reqs :
    (500 \in Statuses(r) /\ req[r].browser # 0)
    => browsers[req[r].browser].state = "closed"

\* the navigation failed and the 500 response was sent after the close
C4_Witness ==
  \E r \in Reqs :
    /\ req[r].err = "goto"
    /\ req[r].browser # 0
    /\ req[r].closeCalls = 1
    /\ req[r].resp = <<FailureResponse("goto")>>

\* C5: after a timeout of waitForSelector the handler goes on to
\* page.evaluate; the request fails only if a later call throws, and ends in
\* the success response if none does.
C5_ContentWaitTimeoutIsSoft ==
  \A r \in Reqs :
    req[r].waited = "timeout"
    => /\ req[r].err \in {"none", "callback", "evaluate", "close", "respond"}
       /\ req[r].err = "none" => req[r].pc \in {"evaluate", "close", "done"}
       /\ (req[r].err = "none" /\ req[r].pc = "done")
            => (Len(req[r].resp) = 1 /\ req[r].resp[1].status = 200
                  /\ req[r].resp[1].body.success = TRUE)

\* a request whose content wait timed out was answered 200
C5_Witness ==
  \E r \in Reqs :
    /\ req[r].waited = "timeout"
    /\ req[r].pc = "done"
    /\ req[r].page # <<>>
    /\ req[r].page[1].rows # <<>>
    /\ req[r].resp = <<SuccessResponse(req[r].data[1])>>

\* C6: every response with a failure status (400, 500) carries success =
\* false in its JSON body, and every 200 response carries success = true.
C6_FailureBodiesCarrySuccessFalse ==
  \A r \in Reqs : \A i \in DOMAIN req[r].resp :
    LET res == req[r].resp[i]
    IN  /\ "success" \in DOMAIN res.body
        /\ res.body.success = (res.status = 200)

\* the calls of the browser engine and of the response whose throw the
\* handler reports as a failure
EngineFaults == {"launch", "newContext", "newPage", "goto", "evaluate",
                 "close", "respond"}

NoContent(d) == d.zone = <<>> /\ d.boss = <<>> /\ d.rows = <<>>

\* C7: a request that loaded a page without zone element, boss element and
\* matching rows, and that no call of the engine failed, ends with the one
\* response 200 {success: true} whose record has zoneName = "", bossName = ""
\* and tableRows = []; and no 500 response is ever caused by the extraction
\* callback, only by a call of the engine or of the response that threw.
C7_ContentAbsenceIsSuccess ==
  \A r \in Reqs :
    /\ (req[r].pc = "done" /\ req[r].err = "none" /\ req[r].page # <<>>
          /\ NoContent(req[r].page[1]))
       => /\ Len(req[r].resp) = 1
          /\ req[r].resp[1].status = 200
          /\ req[r].resp[1].body.success = TRUE
          /\ req[r].resp[1].body.data.zoneName = <<>>
          /\ req[r].resp[1].body.data.bossName = <<>>
          /\ req[r].resp[1].body.data.tableRows = <<>>
    /\ \A i \in DOMAIN req[r].resp :
         req[r].resp[i].status = 500
           => req[r].resp[i].body.message \in EngineFaults

\* an empty page was answered 200 after the content wait had timed out
C7_Witness ==
  \E r \in Reqs :
    /\ req[r].pc = "done"
    /\ req[r].page # <<>>
    /\ NoContent(req[r].page[1])
    /\ req[r].page[1].fault = "none"
    /\ req[r].waited = "timeout"
    /\ Len(req[r].resp) = 1
    /\ req[r].resp[1].status = 200

\* the rows of a page that have at least four cells
KeptIndexes(rows) == { i \in DOMAIN rows : Len(rows[i]) >= 4 }

\* the place of kept row i among the kept rows
RankOf(rows, i) == Cardinality({ j \in KeptIndexes(rows) : j <= i })

\* C8: tableRows holds exactly the rows with at least four cells, in
\* document order, each as {jobName: trimmed text of cell 0, score: of cell
\* 1, count: of cell 3}; the forEach/push form of the extraction gives the
\* same sequence.
C8_RowsKeptInDocumentOrder ==
  \A r \in Reqs :
    (req[r].data # <<>> /\ req[r].page[1].fault # "rows")
    => LET rows == req[r].page[1].rows
           out == req[r].data[1].tableRows
       IN  /\ Len(out) = Cardinality(KeptIndexes(rows))
           /\ \A i \in KeptIndexes(rows) :
                out[RankOf(rows, i)] = [jobName |-> Trim(rows[i][1]),
                                        score   |-> Trim(rows[i][2]),
                                        count   |-> Trim(rows[i][4])]
           /\ out = extractRowsForEach(rows, <<>>)

\* three rows, the second too short: the first and the third were extracted
C8_Witness ==
  \E r \in Reqs :
    /\ req[r].data # <<>>
    /\ Len(req[r].page[1].rows) = 3
    /\ Len(req[r].page[1].rows[1]) = 4
    /\ Len(req[r].page[1].rows[2]) = 3
    /\ Len(req[r].page[1].rows[3]) = 5
    /\ req[r].page[1].rows[1] # SubSeq(req[r].page[1].rows[3], 1, 4)
    /\ Len(req[r].data[1].tableRows) = 2
    /\ req[r].data[1].tableRows[1].count = <<"p", "4">>
    /\ req[r].data[1].tableRows[2].count = <<"b", "4">>

\* C10: every method call on a browser, its context or its page, close
\* included, comes from the request whose launch created the browser, and
\* no two requests hold the same handle.
C10_BrowserUsedByItsOwnerOnly ==
  /\ \A h \in Handles : users[h] \subseteq {browsers[h].owner}
  /\ \A h \in Handles :
       browsers[h].state # "none" => req[browsers[h].owner].browser = h
  /\ \A r, q \in Reqs :
       (r # q /\ req[r].browser # 0) => req[r].browser # req[q].browser

\* two requests were in flight together, each on its own browser; one has
\* closed its browser and been answered while the other's is still open
C10_Witness ==
  \E r, q \in Reqs :
    /\ r # q
    /\ req[r].browser # 0 /\ req[q].browser # 0
    /\ req[r].pc = "done" /\ req[r].closeCalls = 1
    /\ browsers[req[r].browser].state = "closed"
    /\ req[q].pc = "evaluate"
    /\ browsers[req[q].browser].state = "open"
    /\ req[q].browser < req[r].browser

\* C11: every request that passed the validation (chromium.launch has been
\* called for it) eventually finishes: no awaited call of the pipeline can
\* keep it suspended for ever.
C11_ValidatedRequestCompletes ==
  \A r \in Reqs : (req[r].pc = "launch") ~> Finished(r)

LogHas(r, e) == \E i \in DOMAIN req[r].log : req[r].log[i] = e

\* C12: when chromium.launch throws, the handler has finished in the same
\* step with the one response 500; launch was called once and is the only
\* call made: no newContext, goto, waitForSelector, evaluate, and no close.
C12_LaunchFailureFailsOnce ==
  \A r \in Reqs :
    LogHas(r, Threw("launch"))
    => /\ req[r].pc = "done"
       /\ req[r].log = <<Call("launch"), Threw("launch")>>
       /\ req[r].launchCalls = 1
       /\ req[r].closeCalls = 0
       /\ req[r].browser = 0
       /\ req[r].resp = <<FailureResponse("launch")>>
       /\ \A h \in Handles : r \notin users[h]

\* a launch failed while another request holds an open browser
C12_Witness ==
  \E r, q \in Reqs :
    /\ LogHas(r, Threw("launch"))
    /\ req[r].resp = <<FailureResponse("launch")>>
    /\ req[q].browser # 0
    /\ browsers[req[q].browser].state = "open"

C14_RuleFaultContained ==
  \A r \in Reqs :
    (req[r].data # <<>> /\ req[r].page[1].fault # "none")
    => LET dom == req[r].page[1]
           d   == req[r].data[1]
       IN  /\ d.zoneName = IF dom.fault = "zone" THEN <<>>
                           ELSE extractSingle(dom.zone, FALSE)
           /\ d.bossName = IF dom.fault = "boss" THEN <<>>
                           ELSE extractSingle(dom.boss, FALSE)
           /\ d.tableRows = IF dom.fault = "rows" THEN <<>>
                            ELSE extractRows(dom.rows)
           /\ req[r].err \in {"none", "close", "respond"}
           /\ (req[r].pc = "done" /\ req[r].err = "none")
                => req[r].resp = <<SuccessResponse(d)>>

\* the calls of the pipeline, in the order of the handler's text
PipelineSteps ==
  <<"launch", "newContext", "newPage", "goto", "waitForSelector", "evaluate">>

IsPipelineCall(e) == e[1] = "call" /\ e[2] # "close"

\* the pipeline calls request r has made, in order
PipelineCalls(r) ==
  LET calls == SelectSeq(req[r].log, IsPipelineCall)
  IN  [i \in DOMAIN calls |-> calls[i][2]]

\* C15: the pipeline calls of a request are an initial part of launch,
\* newContext, newPage, goto, waitForSelector, evaluate, each made once;
\* a call is made only after the one before it has returned (for
\* waitForSelector: returned or thrown), and after a throw of any other
\* call no pipeline call is made again.
C15_StepsInOrderOnce ==
  \A r \in Reqs :
    LET log == req[r].log
        made == PipelineCalls(r)
    IN  /\ Len(made) <= Len(PipelineSteps)
        /\ made = SubSeq(PipelineSteps, 1, Len(made))
        /\ \A i \in DOMAIN log :
             (IsPipelineCall(log[i]) /\ log[i][2] # PipelineSteps[1])
             => /\ i > 1
                /\ \E k \in 2..Len(PipelineSteps) :
                     /\ log[i][2] = PipelineSteps[k]
                     /\ \/ log[i - 1] = Ok(PipelineSteps[k - 1])
                        \/ /\ PipelineSteps[k] = "evaluate"
                           /\ log[i - 1] = Threw("waitForSelector")
        /\ \A i \in DOMAIN log :
             (log[i][1] = "throw" /\ log[i][2] # "waitForSelector")
             => \A j \in (i + 1)..Len(log) : ~IsPipelineCall(log[j])

\* a request ran the whole pipeline, its content wait having timed out
C15_Witness ==
  \E r \in Reqs :
    /\ req[r].pc = "done"
    /\ PipelineCalls(r) = PipelineSteps
    /\ LogHas(r, Threw("waitForSelector"))
    /\ req[r].resp = <<SuccessResponse(req[r].data[1])>>

\* C16: a request whose handler has finished has been sent exactly one
\* response.
C16_ExactlyOneResponse ==
  \A r \in Reqs : Finished(r) => Len(req[r].resp) = 1

\* C17: a request that has been sent a response, 200 or other, holds no open
\* browser; a 200 is sent only by a request whose browser.close has returned
\* and whose browser is closed.
C17_ClosedBeforeAnyResponse ==
  \A r \in Reqs :
    /\ (req[r].resp # <<>> /\ req[r].browser # 0)
       => browsers[req[r].browser].state = "closed"
    /\ 200 \in Statuses(r)
       => /\ req[r].browser # 0
          /\ browsers[req[r].browser].state = "closed"
          /\ req[r].log[Len(req[r].log)] = Ok("close")
          /\ req[r].closeCalls = 1

\* a request was answered 200, its browser closed, while the browser of
\* another request is open
C17_Witness ==
  \E r, q \in Reqs :
    /\ req[r].resp # <<>>
    /\ req[r].resp[1].status = 200
    /\ browsers[req[r].browser].state = "closed"
    /\ req[q].browser # 0
    /\ browsers[req[q].browser].state = "open"

=============================================================================
